---- MODULE Spec2Model ----
(***************************************************************************)
(* Mount Session of supertag: src/cli/handlers/mount.rs, fn handle and fn  *)
(* run_migrations.  One invocation of handle is modelled, together with    *)
(* the process it may fork, the store file, the kernel mount, the SIGINT   *)
(* flag and the FUSE worker threads that open pool connections.            *)
(***************************************************************************)
EXTENDS Naturals, Integers, Sequences, FiniteSets, TLC

\* Schema version the running binary requires (common::version_str()).
TargetVersion == 2
\* FUSE worker threads that may each open one pool connection.
MaxWorkers == 2
\* Invocations of handle on the same collection, one after the other.
MaxSessions == 2
\* Cap of the count of sleeps completed after the flag was set.
MaxSlept == 3
\* mutant: the loop sleeps a second at a time
SleepMs_Second == 10 * 100
\* thread::sleep(Duration::from_millis(100))
SleepMs == 100
\* the response latency the wait loop has to keep: below one second
LatencyBoundMs == 1000

Proc == {"main", "child"}
Workers == 1..MaxWorkers

VARIABLES
    linux,       \* cfg!(target_os = "linux"), fixed by the build
    foreground,  \* args.is_present("foreground")
    mpExists,    \* mountpoint.exists()
    pc,          \* position of each process inside handle
    result,      \* what handle returned in each process: none | Ok | Err
    err,         \* the error carried by an Err result
    pool,        \* whether the process holds a ThreadConnPool object
    poolConns,   \* worker threads holding an open pool connection, per process
    notifier,    \* the notification sink the process holds: none | desktop | uds
    registered,  \* signal_hook::flag::register(SIGINT, sigint) has succeeded
    sigint,      \* the AtomicBool the handler sets
    mounted,     \* the kernel mount of this session is established
    version,     \* SchemaVersion persisted in the store file
    openedView,  \* what opener::open was asked to show: none | mountpoint | supertag_dir
    events,      \* history: the effects of this invocation, in order, as <<process, effect>>
    session,     \* history: which invocation of handle on this collection this is
    migratedBefore, \* history: an earlier invocation completed the Migrator on this store
    sleptSinceFlag  \* history: sleeps of the wait loop completed after the flag was set

vars == <<linux, foreground, mpExists, pc, result, err, pool, poolConns, notifier,
          registered, sigint, mounted, version, openedView, events, session,
          migratedBefore, sleptSinceFlag>>

env == <<linux, foreground, mpExists>>

\* what only a new invocation changes
carry == <<session, migratedBefore>>

\* ------------------------------------------------------------------ helpers

Log(p, e) == Append(events, <<p, e>>)

Log2(p, e1, e2) == Append(Append(events, <<p, e1>>), <<p, e2>>)

Pos(p, e) == {i \in 1..Len(events) : events[i] = <<p, e>>}

Count(p, e) == Cardinality(Pos(p, e))

Happened(p, e) == Pos(p, e) # {}

\* every occurrence of effect b of process q comes after an occurrence of a of p
Precedes(p, a, q, b) == \A j \in Pos(q, b) : \E i \in Pos(p, a) : i < j

\* `?` on an Err: handle returns the error in process p, dropping its locals
ReturnErr(p, kind) ==
    /\ pc' = [pc EXCEPT ![p] = "failed"]
    /\ result' = [result EXCEPT ![p] = "Err"]
    /\ err' = [err EXCEPT ![p] = kind]

Goto(p, next) ==
    /\ pc' = [pc EXCEPT ![p] = next]
    /\ UNCHANGED <<result, err>>

\* ---------------------------------------------------------------- initial

Init ==
    /\ linux \in BOOLEAN
    /\ foreground \in BOOLEAN
    /\ mpExists \in BOOLEAN
    /\ pc = [p \in Proc |-> IF p = "main" THEN "start" ELSE "unborn"]
    /\ result = [p \in Proc |-> "none"]
    /\ err = [p \in Proc |-> "none"]
    /\ pool = [p \in Proc |-> FALSE]
    /\ poolConns = [p \in Proc |-> {}]
    /\ notifier = [p \in Proc |-> "none"]
    /\ registered = FALSE
    /\ sigint = FALSE
    /\ mounted = FALSE
    /\ version \in 0..TargetVersion
    /\ openedView = "none"
    /\ events = <<>>
    /\ session = 1
    /\ migratedBefore = FALSE
    /\ sleptSinceFlag = 0

\* ------------------------------------------------- collaborators of handle

\* sql::migrations::migrate on a store at version v: the versions it may leave.
\* Success brings the store to the required version; a failing step leaves the
\* store at the last committed version.  At the required version there is no
\* step to run: the call is a no-op and cannot fail (the empty set of outcomes).
migrate(v, ok) ==
    IF ok THEN {TargetVersion}
    ELSE {w \in v..TargetVersion : w < TargetVersion}

\* ThreadConnPool::new: builds the pool object; connections are opened lazily,
\* one per worker thread, on that thread's first use.
ThreadConnPool_new(p) ==
    /\ pool' = [pool EXCEPT ![p] = TRUE]
    /\ UNCHANGED poolConns

\* mutant: the result of migrate is discarded instead of propagated with `?`
run_migrations_Swallow(p, next) ==
    \E openOk \in BOOLEAN, migOk \in BOOLEAN :
        IF ~openOk
        THEN /\ ReturnErr(p, "StoreOpen")
             /\ events' = Log(p, "return_err")
             /\ UNCHANGED version
        ELSE /\ version' \in migrate(version, migOk)
             /\ Goto(p, next)
             /\ events' = Log2(p, "store_open", IF migOk THEN "migrate_ok" ELSE "migrate_err")

\* mutant: a store with nothing left to migrate is reported as an error
run_migrations_ErrWhenCurrent(p, next) ==
    \E openOk \in BOOLEAN, migOk \in BOOLEAN :
        IF ~openOk
        THEN /\ ReturnErr(p, "StoreOpen")
             /\ events' = Log(p, "return_err")
             /\ UNCHANGED version
        ELSE IF ~migOk \/ version = TargetVersion
        THEN /\ version' \in migrate(version, FALSE) \cup {version}
             /\ ReturnErr(p, "Migration")
             /\ events' = Append(Log2(p, "store_open", "migrate_err"), <<p, "return_err">>)
        ELSE /\ version' \in migrate(version, TRUE)
             /\ Goto(p, next)
             /\ events' = Log2(p, "store_open", "migrate_ok")

\* fn run_migrations: Connection::open(db_path)?, then migrate(conn, version)?
run_migrations(p, next) ==
    \E openOk \in BOOLEAN, migOk \in BOOLEAN :
        IF ~openOk
        THEN /\ ReturnErr(p, "StoreOpen")
             /\ events' = Log(p, "return_err")
             /\ UNCHANGED version
        ELSE IF ~migOk
        THEN /\ version' \in migrate(version, FALSE)
             /\ ReturnErr(p, "Migration")
             /\ events' = Append(Log2(p, "store_open", "migrate_err"), <<p, "return_err">>)
        ELSE /\ version' \in migrate(version, TRUE)
             /\ Goto(p, next)
             /\ events' = Log2(p, "store_open", "migrate_ok")

\* fuse_sys::mount(...)?: the kernel mount call, issued by process p
fuse_mount(p, next) ==
    \E ok \in BOOLEAN :
        IF ok
        THEN /\ mounted' = TRUE
             /\ Goto(p, next)
             /\ events' = Log2(p, "mount_call", "mounted")
        ELSE /\ mounted' = mounted
             /\ ReturnErr(p, "Mount")
             /\ events' = Log2(p, "mount_call", "return_err")

\* the process whose filesystem callbacks are being served
Serving(p) ==
    \/ p = "main" /\ pc[p] \in {"loop", "sleep", "unmount"}
    \/ p = "child" /\ pc[p] = "wait"

\* ------------------------------------------------------------ Initializing

\* mutant: the platform check is dropped
CheckMountpoint_NoCheck ==
    /\ pc["main"] = "start"
    /\ Goto("main", "open")
    /\ UNCHANGED <<env, carry, sleptSinceFlag, pool, poolConns, notifier, registered, sigint, mounted,
                   version, openedView, events>>

\* lines 43-62: resolve the mountpoint; on linux it must already exist
CheckMountpoint ==
    /\ pc["main"] = "start"
    /\ IF linux /\ ~mpExists
       THEN /\ ReturnErr("main", "InvalidMountDir")
            /\ events' = Log("main", "return_err")
       ELSE /\ Goto("main", "open")
            /\ UNCHANGED events
    /\ UNCHANGED <<env, carry, sleptSinceFlag, pool, poolConns, notifier, registered, sigint, mounted,
                   version, openedView>>

\* mutant: a failed opener::open is ignored and the session goes on
OpenView_IgnoreFailure ==
    /\ pc["main"] = "open"
    /\ \E ok \in BOOLEAN :
        /\ openedView' = IF ~ok THEN openedView
                          ELSE IF mpExists THEN "mountpoint" ELSE "supertag_dir"
        /\ events' = Log("main", IF ok THEN "opener" ELSE "opener_err")
        /\ Goto("main", IF foreground THEN "fg_migrate" ELSE "bg_pool")
    /\ UNCHANGED <<env, carry, sleptSinceFlag, pool, poolConns, notifier, registered,
                   sigint, mounted, version>>

\* lines 64-72: open the file manager, then branch on the topology
OpenView ==
    /\ pc["main"] = "open"
    /\ \E ok \in BOOLEAN :
        IF ok
        THEN /\ openedView' = IF mpExists THEN "mountpoint" ELSE "supertag_dir"
             /\ events' = Log("main", "opener")
             /\ Goto("main", IF foreground THEN "fg_migrate" ELSE "bg_pool")
        ELSE /\ openedView' = openedView
             /\ events' = Log2("main", "opener_err", "return_err")
             /\ ReturnErr("main", "Opener")
    /\ UNCHANGED <<env, carry, sleptSinceFlag, pool, poolConns, notifier, registered, sigint, mounted, version>>

\* ------------------------------------------------------------ Backgrounding

\* mutant: the migrations run before the fork, in the process that will fork
NewPoolBg_MigrateFirst ==
    /\ pc["main"] = "bg_pool"
    /\ ThreadConnPool_new("main")
    /\ version' \in migrate(version, TRUE)
    /\ events' = Append(Log2("main", "store_open", "migrate_ok"), <<"main", "pool_new">>)
    /\ Goto("main", "fork")
    /\ UNCHANGED <<env, carry, sleptSinceFlag, notifier, registered, sigint, mounted, openedView>>

\* lines 72-74: the pool object is built before the fork
NewPoolBg ==
    /\ pc["main"] = "bg_pool"
    /\ ThreadConnPool_new("main")
    /\ events' = Log("main", "pool_new")
    /\ Goto("main", "fork")
    /\ UNCHANGED <<env, carry, sleptSinceFlag, notifier, registered, sigint, mounted, version, openedView>>

\* line 75: fork().expect("Fork failed"); the child starts as a copy of the parent
Fork ==
    /\ pc["main"] = "fork"
    /\ \E ok \in BOOLEAN :
        IF ok
        THEN /\ pc' = [pc EXCEPT !["main"] = "parent", !["child"] = "c_migrate"]
             /\ pool' = [pool EXCEPT !["child"] = pool["main"]]
             /\ poolConns' = [poolConns EXCEPT !["child"] = poolConns["main"]]
             /\ notifier' = [notifier EXCEPT !["child"] = notifier["main"]]
             /\ events' = Log("main", "fork")
        ELSE /\ pc' = [pc EXCEPT !["main"] = "panicked"]
             /\ events' = Log("main", "fork_failed")
             /\ UNCHANGED <<pool, poolConns, notifier>>
    /\ UNCHANGED <<env, carry, sleptSinceFlag, result, err, registered, sigint, mounted, version, openedView>>

\* mutant: the parent falls through to the mount call before it returns
ParentReturn_Mounts ==
    /\ pc["main"] = "parent"
    /\ pc' = [pc EXCEPT !["main"] = "done"]
    /\ result' = [result EXCEPT !["main"] = "Ok"]
    /\ events' = Append(Log2("main", "parent_report", "mount_call"), <<"main", "return_ok">>)
    /\ UNCHANGED <<env, carry, sleptSinceFlag, err, pool, poolConns, notifier, registered,
                   sigint, mounted, version, openedView>>

\* mutant: the parent takes the child and its mount down when it exits
ParentReturn_TearsDown ==
    /\ pc["main"] = "parent"
    /\ pc' = [pc EXCEPT !["main"] = "done",
                        !["child"] = IF pc["child"] = "wait" THEN "done" ELSE @]
    /\ result' = [result EXCEPT !["main"] = "Ok"]
    /\ mounted' = FALSE
    /\ events' = Log2("main", "parent_report", "return_ok")
    /\ UNCHANGED <<env, carry, sleptSinceFlag, err, pool, poolConns, notifier, registered,
                   sigint, version, openedView>>

\* mutant: the parent runs the migrations before it reports and returns
ParentReturn_Migrating ==
    /\ pc["main"] = "parent"
    /\ pc' = [pc EXCEPT !["main"] = "done"]
    /\ result' = [result EXCEPT !["main"] = "Ok"]
    /\ version' \in migrate(version, TRUE)
    /\ events' = Append(Append(Log2("main", "store_open", "migrate_ok"),
                                <<"main", "parent_report">>), <<"main", "return_ok">>)
    /\ UNCHANGED <<env, carry, sleptSinceFlag, err, pool, poolConns, notifier, registered, sigint, mounted,
                   openedView>>

\* lines 76-80: the parent prints the child's PID and returns Ok
ParentReturn ==
    /\ pc["main"] = "parent"
    /\ pc' = [pc EXCEPT !["main"] = "done"]
    /\ result' = [result EXCEPT !["main"] = "Ok"]
    /\ events' = Log2("main", "parent_report", "return_ok")
    /\ UNCHANGED <<env, carry, sleptSinceFlag, err, pool, poolConns, notifier, registered, sigint, mounted,
                   version, openedView>>

\* line 89: the child runs the migrations
ChildMigrate ==
    /\ pc["child"] = "c_migrate"
    /\ run_migrations("child", "c_notifier")
    /\ UNCHANGED <<env, carry, sleptSinceFlag, pool, poolConns, notifier, registered, sigint, mounted, openedView>>

\* mutant: the child builds the socket sink
ChildNotifier_Socket ==
    /\ pc["child"] = "c_notifier"
    /\ notifier' = [notifier EXCEPT !["child"] = "uds"]
    /\ events' = Log("child", "notifier")
    /\ Goto("child", "c_mount")
    /\ UNCHANGED <<env, carry, sleptSinceFlag, pool, poolConns, registered, sigint, mounted, version, openedView>>

\* lines 91-94: DesktopNotifier::new, which returns no Result
ChildNotifier ==
    /\ pc["child"] = "c_notifier"
    /\ notifier' = [notifier EXCEPT !["child"] = "desktop"]
    /\ events' = Log("child", "notifier")
    /\ Goto("child", "c_mount")
    /\ UNCHANGED <<env, carry, sleptSinceFlag, pool, poolConns, registered, sigint, mounted, version, openedView>>

\* mutant: the child returns Ok right after the mount call, without the wait
ChildMount_NoWait ==
    /\ pc["child"] = "c_mount"
    /\ \E ok \in BOOLEAN :
        IF ok
        THEN /\ mounted' = TRUE
             /\ pc' = [pc EXCEPT !["child"] = "done"]
             /\ result' = [result EXCEPT !["child"] = "Ok"]
             /\ err' = err
             /\ events' = Append(Log2("child", "mount_call", "mounted"),
                                 <<"child", "return_ok">>)
        ELSE /\ mounted' = mounted
             /\ ReturnErr("child", "Mount")
             /\ events' = Log2("child", "mount_call", "return_err")
    /\ UNCHANGED <<env, carry, sleptSinceFlag, pool, poolConns, notifier, registered,
                   sigint, version, openedView>>

\* lines 96-100: TagFilesystem::new and the kernel mount call
ChildMount ==
    /\ pc["child"] = "c_mount"
    /\ fuse_mount("child", "wait")
    /\ UNCHANGED <<env, carry, sleptSinceFlag, pool, poolConns, notifier, registered, sigint, version, openedView>>

\* mutant: the child returns without waiting on the mount handle
ChildWaitReturn_NoWait ==
    /\ pc["child"] = "wait"
    /\ pc' = [pc EXCEPT !["child"] = "done"]
    /\ result' = [result EXCEPT !["child"] = "Ok"]
    /\ events' = Log("child", "return_ok")
    /\ UNCHANGED <<env, carry, sleptSinceFlag, err, pool, poolConns, notifier, registered, sigint, mounted,
                   version, openedView>>

\* lines 101-103: mount_handle.lock().wait() returns once the mount is gone
ChildWaitReturn ==
    /\ pc["child"] = "wait"
    /\ ~mounted
    /\ pc' = [pc EXCEPT !["child"] = "done"]
    /\ result' = [result EXCEPT !["child"] = "Ok"]
    /\ events' = Log("child", "return_ok")
    /\ UNCHANGED <<env, carry, sleptSinceFlag, err, pool, poolConns, notifier, registered, sigint, mounted,
                   version, openedView>>

\* --------------------------------------------------------------- Foreground

\* line 107
FgMigrate ==
    /\ pc["main"] = "fg_migrate"
    /\ run_migrations("main", "fg_pool")
    /\ UNCHANGED <<env, carry, sleptSinceFlag, pool, poolConns, notifier, registered, sigint, mounted, openedView>>

\* lines 109-115
FgNewPool ==
    /\ pc["main"] = "fg_pool"
    /\ ThreadConnPool_new("main")
    /\ events' = Log("main", "pool_new")
    /\ Goto("main", "fg_notifier")
    /\ UNCHANGED <<env, carry, sleptSinceFlag, notifier, registered, sigint, mounted, version, openedView>>

\* mutant: a failed socket sink is ignored and the session goes on without one
FgNotifier_Continue ==
    /\ pc["main"] = "fg_notifier"
    /\ \E ok \in BOOLEAN :
        /\ notifier' = [notifier EXCEPT !["main"] = IF ok THEN "uds" ELSE "none"]
        /\ events' = Log("main", IF ok THEN "notifier" ELSE "notifier_err")
        /\ Goto("main", "fg_register")
    /\ UNCHANGED <<env, carry, sleptSinceFlag, pool, poolConns, registered, sigint, mounted, version, openedView>>

\* lines 117-118: UDSNotifier::new(notifier_socket, true)?
FgNotifier ==
    /\ pc["main"] = "fg_notifier"
    /\ \E ok \in BOOLEAN :
        IF ok
        THEN /\ notifier' = [notifier EXCEPT !["main"] = "uds"]
             /\ events' = Log("main", "notifier")
             /\ Goto("main", "fg_register")
        ELSE /\ notifier' = notifier
             /\ events' = Log2("main", "notifier_err", "return_err")
             /\ ReturnErr("main", "Notifier")
    /\ UNCHANGED <<env, carry, sleptSinceFlag, pool, poolConns, registered, sigint, mounted, version, openedView>>

\* lines 120-121: signal_hook::flag::register(SIGINT, sigint)?
FgRegister ==
    /\ pc["main"] = "fg_register"
    /\ \E ok \in BOOLEAN :
        IF ok
        THEN /\ registered' = TRUE
             /\ events' = Log("main", "sig_register")
             /\ Goto("main", "fg_mount")
        ELSE /\ registered' = registered
             /\ events' = Log("main", "return_err")
             /\ ReturnErr("main", "SignalRegister")
    /\ UNCHANGED <<env, carry, sleptSinceFlag, pool, poolConns, notifier, sigint, mounted, version, openedView>>

\* mutant: the flag is created afresh once the mount call has returned
FgMount_FreshFlag ==
    /\ pc["main"] = "fg_mount"
    /\ fuse_mount("main", "loop")
    /\ sigint' = FALSE
    /\ UNCHANGED <<env, carry, sleptSinceFlag, pool, poolConns, notifier, registered,
                   version, openedView>>

\* lines 123-124
FgMount ==
    /\ pc["main"] = "fg_mount"
    /\ fuse_mount("main", "loop")
    /\ UNCHANGED <<env, carry, sleptSinceFlag, pool, poolConns, notifier, registered, sigint, version, openedView>>

\* mutant: the loop condition is inverted
LoopCheck_Inverted ==
    /\ pc["main"] = "loop"
    /\ Goto("main", IF ~sigint THEN "unmount" ELSE "sleep")
    /\ UNCHANGED <<env, carry, sleptSinceFlag, pool, poolConns, notifier, registered, sigint, mounted, version,
                   openedView, events>>

\* line 126: while !sigint.load(Relaxed)
LoopCheck ==
    /\ pc["main"] = "loop"
    /\ Goto("main", IF sigint THEN "unmount" ELSE "sleep")
    /\ UNCHANGED <<env, carry, sleptSinceFlag, pool, poolConns, notifier, registered, sigint, mounted, version,
                   openedView, events>>

\* line 127: thread::sleep(100 ms)
LoopSleep ==
    /\ pc["main"] = "sleep"
    /\ Goto("main", "loop")
    /\ sleptSinceFlag' = IF sigint /\ sleptSinceFlag < MaxSlept
                         THEN sleptSinceFlag + 1 ELSE sleptSinceFlag
    /\ UNCHANGED <<env, carry, pool, poolConns, notifier, registered, sigint, mounted,
                   version, openedView, events>>

\* dropping the mount handle at the end of its scope takes the mount down
DropMountHandle ==
    /\ mounted' = FALSE
    /\ events' = Log2("main", "unmount", "return_ok")

\* lines 129-132: log, return Ok(()), _mount_handle goes out of scope
FgReturn ==
    /\ pc["main"] = "unmount"
    /\ DropMountHandle
    /\ pc' = [pc EXCEPT !["main"] = "done"]
    /\ result' = [result EXCEPT !["main"] = "Ok"]
    /\ UNCHANGED <<env, carry, sleptSinceFlag, err, pool, poolConns, notifier, registered, sigint, version,
                   openedView>>

\* -------------------------------------------------------------- environment

\* SIGINT delivered to the foreground process while the handler is registered
Signal ==
    /\ registered
    /\ pc["main"] \in {"fg_mount", "loop", "sleep", "unmount"}
    /\ ~sigint
    /\ sigint' = TRUE
    /\ events' = Append(events, <<"env", "sigint">>)
    /\ UNCHANGED <<env, carry, sleptSinceFlag, pc, result, err, pool, poolConns, notifier,
                   registered, mounted, version, openedView>>

\* the kernel delivers an unmount request (umount / fusermount -u from outside)
KernelUnmount ==
    /\ mounted
    /\ mounted' = FALSE
    /\ events' = Append(events, <<"kernel", "unmount">>)
    /\ UNCHANGED <<env, carry, sleptSinceFlag, pc, result, err, pool, poolConns, notifier, registered, sigint,
                   version, openedView>>

\* a filesystem callback on worker thread w takes its connection from the pool
CallbackConn(w) ==
    \E p \in Proc :
        /\ mounted
        /\ Serving(p)
        /\ pool[p]
        /\ w \notin poolConns[p]
        /\ poolConns' = [poolConns EXCEPT ![p] = @ \cup {w}]
        /\ events' = Log(p, "pool_conn")
        /\ UNCHANGED <<env, carry, sleptSinceFlag, pc, result, err, pool, notifier, registered, sigint, mounted,
                       version, openedView>>

\* the collection is mounted again: a new invocation of handle, once every
\* process of the previous one has ended, on the store as it was left
Finished ==
    /\ pc["main"] \in {"done", "failed", "panicked"}
    /\ pc["child"] \in {"unborn", "done", "failed"}

NextInvocation ==
    /\ Finished
    /\ ~mounted
    /\ session < MaxSessions
    /\ session' = session + 1
    /\ migratedBefore' = (migratedBefore \/ \E p \in Proc : Happened(p, "migrate_ok"))
    /\ linux' = linux
    /\ foreground' \in BOOLEAN
    /\ mpExists' \in BOOLEAN
    /\ pc' = [p \in Proc |-> IF p = "main" THEN "start" ELSE "unborn"]
    /\ result' = [p \in Proc |-> "none"]
    /\ err' = [p \in Proc |-> "none"]
    /\ pool' = [p \in Proc |-> FALSE]
    /\ poolConns' = [p \in Proc |-> {}]
    /\ notifier' = [p \in Proc |-> "none"]
    /\ registered' = FALSE
    /\ sigint' = FALSE
    /\ openedView' = "none"
    /\ events' = <<>>
    /\ sleptSinceFlag' = 0
    /\ UNCHANGED <<mounted, version>>

\* ------------------------------------------------------------ specification

MainStep ==
    \/ CheckMountpoint
    \/ OpenView
    \/ NewPoolBg
    \/ Fork
    \/ ParentReturn
    \/ FgMigrate
    \/ FgNewPool
    \/ FgNotifier
    \/ FgRegister
    \/ FgMount
    \/ LoopCheck
    \/ LoopSleep
    \/ FgReturn

ChildStep ==
    \/ ChildMigrate
    \/ ChildNotifier
    \/ ChildMount
    \/ ChildWaitReturn

Next ==
    \/ MainStep
    \/ ChildStep
    \/ Signal
    \/ KernelUnmount
    \/ NextInvocation
    \/ \E w \in Workers : CallbackConn(w)

Spec == Init /\ [][Next]_vars

\* a process that can take a step of handle eventually takes one; nothing
\* obliges the environment to send a signal or to unmount
FairSpec == Spec /\ WF_vars(MainStep) /\ WF_vars(ChildStep)

\* ------------------------------------------------------ lifecycle states

\* the Mount Session's state; after the fork the session lives in the child
SessionState ==
    IF pc["main"] \in {"start", "open"} THEN "Initializing"
    ELSE IF pc["main"] = "panicked" THEN "Failed"
    ELSE IF foreground
    THEN CASE pc["main"] \in {"fg_migrate", "fg_pool", "fg_notifier", "fg_register",
                              "fg_mount"} -> "Foreground"
           [] pc["main"] \in {"loop", "sleep"} -> "Mounted"
           [] pc["main"] = "unmount" -> "Unmounting"
           [] pc["main"] = "done" -> "Terminated"
           [] OTHER -> "Failed"
    ELSE CASE pc["main"] = "failed" -> "Failed"
           [] pc["child"] \in {"unborn", "c_migrate", "c_notifier", "c_mount"} -> "Backgrounding"
           [] pc["child"] = "wait" /\ mounted -> "Mounted"
           [] pc["child"] = "wait" /\ ~mounted -> "Unmounting"
           [] pc["child"] = "done" -> "Terminated"
           [] OTHER -> "Failed"

TypeOK ==
    /\ pc \in [Proc -> {"unborn", "start", "open", "bg_pool", "fork", "parent",
                        "c_migrate", "c_notifier", "c_mount", "wait", "fg_migrate",
                        "fg_pool", "fg_notifier", "fg_register", "fg_mount", "loop",
                        "sleep", "unmount", "done", "failed", "panicked"}]
    /\ result \in [Proc -> {"none", "Ok", "Err"}]
    /\ notifier \in [Proc -> {"none", "desktop", "uds"}]
    /\ version \in 0..TargetVersion
    /\ \A p \in Proc : poolConns[p] \subseteq Workers
    /\ session \in 1..MaxSessions
    /\ sleptSinceFlag \in 0..MaxSlept
    /\ Finished => ~mounted

\* ----------------------------------------------------------------- claims

StoreEffects == {"store_open", "migrate_ok", "migrate_err", "pool_conn"}

IsMainEvent(e) == e[1] = "main"

\* what the parent did after fork() returned to it
MainAfterFork ==
    LET i == CHOOSE k \in Pos("main", "fork") : TRUE
    IN  SelectSeq(SubSeq(events, i + 1, Len(events)), IsMainEvent)

\* C1: in a background mount the parent never touches the store: it runs no
\* migration and opens no store connection, and after the fork it only reports
\* the child's PID and returns success.
C1_ParentNeverTouchesStore ==
    ~foreground =>
        /\ \A e \in StoreEffects : ~Happened("main", e)
        /\ poolConns["main"] = {}
        /\ Happened("main", "fork") =>
              /\ pc["main"] \in {"parent", "done"}
              /\ MainAfterFork \in {<<>>, << <<"main", "parent_report">>,
                                             <<"main", "return_ok">> >>}
        /\ pc["main"] = "done" => result["main"] = "Ok"

C1_Witness ==
    /\ ~foreground
    /\ result["main"] = "Ok"
    /\ Happened("child", "store_open")

\* C2: no store connection is opened in a process before its fork point has
\* resolved.  Background: the pool object is built before fork(), nothing is
\* open while the fork is pending, and the first connection is the one
\* run_migrations opens in the child after the fork.  Foreground: nothing
\* forks and the first connection is the one run_migrations opens.
C2_NoConnectionBeforeFork ==
    /\ ~foreground =>
          /\ ~Happened("main", "fork") =>
                \A p \in Proc : /\ poolConns[p] = {}
                                /\ \A e \in StoreEffects : ~Happened(p, e)
          /\ pc["main"] = "fork" => pool["main"]
          /\ Precedes("main", "pool_new", "main", "fork")
          /\ Precedes("main", "fork", "child", "store_open")
          /\ Precedes("child", "store_open", "child", "pool_conn")
          /\ \A e \in StoreEffects : ~Happened("main", e)
    /\ foreground =>
          /\ ~Happened("main", "fork") /\ pc["child"] = "unborn"
          /\ Precedes("main", "store_open", "main", "pool_conn")
          /\ Precedes("main", "store_open", "main", "pool_new")
          /\ Happened("main", "store_open") => pc["main"] \notin {"start", "open"}
    /\ \A p \in Proc : poolConns[p] # {} => Happened(p, "store_open")

C2_Witness ==
    /\ ~foreground
    /\ poolConns["child"] # {}

\* C3: a process that issues the kernel mount call has invoked the Migrator
\* exactly once, successfully, before the call and so before any pool
\* connection of a callback; the background parent invokes it zero times.
C3_MigrateOnceBeforeMount ==
    /\ \A p \in Proc :
          /\ Count(p, "migrate_ok") + Count(p, "migrate_err") <= 1
          /\ Count(p, "store_open") <= 1
          /\ Happened(p, "mount_call") =>
                /\ Count(p, "migrate_ok") = 1
                /\ Count(p, "migrate_err") = 0
                /\ version = TargetVersion
          /\ Precedes(p, "migrate_ok", p, "mount_call")
          /\ Precedes(p, "migrate_ok", p, "pool_conn")
          /\ Precedes(p, "mount_call", p, "pool_conn")
    /\ ~foreground =>
          /\ Count("main", "migrate_ok") + Count("main", "migrate_err") = 0
          /\ ~Happened("main", "mount_call")

C3_Witness ==
    \E p \in Proc : Happened(p, "mounted") /\ poolConns[p] = Workers

\* C4: a failure of migration, of notifier construction or of the mount call
\* makes handle return an error in that process and the session Failed, with
\* no mount of this session established; after a failed migration or notifier
\* the mount call is never issued, and a session that mounted returns no error.
C4_FailureMeansNoMount ==
    \A p \in Proc :
        /\ Happened(p, "migrate_err") => result[p] = "Err" /\ err[p] = "Migration"
        /\ Happened(p, "notifier_err") => result[p] = "Err" /\ err[p] = "Notifier"
        /\ (Happened(p, "mount_call") /\ ~Happened(p, "mounted")) =>
              result[p] = "Err" /\ err[p] = "Mount"
        /\ result[p] = "Err" =>
              /\ pc[p] = "failed"
              /\ SessionState = "Failed"
              /\ ~mounted
              /\ ~Happened(p, "mounted")
              /\ err[p] \in {"StoreOpen", "Migration", "Notifier"} =>
                    ~Happened(p, "mount_call")
        /\ Happened(p, "mounted") => result[p] # "Err"

C4_Witness ==
    /\ result["child"] = "Err"
    /\ err["child"] = "Mount"

\* what the invoking caller observes: the exit of the process it started
CallerExit ==
    IF pc["main"] = "panicked" \/ result["main"] = "Err" THEN "nonzero"
    ELSE IF result["main"] = "Ok" THEN "zero"
    ELSE "running"

\* C5: the invoking caller observes success only for a session that mounted
\* cleanly and a failure for every Failed session, in both topologies,
\* a background child failing after the fork included.
C5_CallerSeesEveryFailure ==
    /\ CallerExit = "zero" => SessionState # "Failed"
    /\ (SessionState = "Failed" /\ CallerExit # "running") => CallerExit = "nonzero"

\* C6: on linux a missing mountpoint fails handle with the invalid-mount-target
\* error before any other effect (no opener, pool, fork, migration, notifier,
\* mount); elsewhere a missing mountpoint does not fail the session by itself.
C6_MissingMountpoint ==
    /\ (linux /\ ~mpExists) =>
          /\ pc["main"] \in {"start", "failed"}
          /\ pc["main"] = "start" => events = <<>>
          /\ pc["main"] = "failed" =>
                /\ result["main"] = "Err" /\ err["main"] = "InvalidMountDir"
                /\ events = << <<"main", "return_err">> >>
          /\ openedView = "none"
          /\ pc["child"] = "unborn"
          /\ ~mounted /\ ~registered
          /\ \A p \in Proc : ~pool[p] /\ poolConns[p] = {} /\ notifier[p] = "none"
    /\ (~linux \/ mpExists) =>
          /\ \A p \in Proc : err[p] # "InvalidMountDir"
          /\ pc["main"] \notin {"start", "open"} =>
                Happened("main", "opener") \/ Happened("main", "opener_err")

C6_Witness ==
    /\ linux /\ ~mpExists
    /\ pc["main"] = "failed"

InLoop == pc["main"] \in {"loop", "sleep"}

\* C7: a mounted foreground session leaves the wait loop only with the
\* termination flag set; once the flag is set the loop exits, the session goes
\* Mounted -> Unmounting -> Terminated, the mount is taken down and handle
\* returns success.
C7_SigintEndsForegroundSession ==
    /\ [][(foreground /\ InLoop /\ ~InLoop') =>
             (sigint /\ pc'["main"] = "unmount" /\ SessionState' = "Unmounting")]_vars
    /\ [][(foreground /\ pc["main"] = "unmount" /\ pc'["main"] # "unmount") =>
             (SessionState' = "Terminated" /\ result'["main"] = "Ok" /\ ~mounted')]_vars
    /\ (foreground /\ InLoop /\ sigint) ~>
             (SessionState = "Terminated" /\ result["main"] = "Ok")

C7_Witness ==
    /\ foreground /\ sigint
    /\ pc["main"] = "done"
    /\ result["main"] = "Ok"

\* C8: in both topologies an unmount request delivered by the kernel to a
\* mounted session eventually brings the session to Terminated, with no
\* termination signal needed.
C8_UnmountRequestTerminates ==
    Happened("kernel", "unmount") ~> SessionState = "Terminated"

NonTerminal == {"Initializing", "Foreground", "Backgrounding", "Mounted", "Unmounting"}

Edges ==
    {<<"Initializing", "Foreground">>, <<"Initializing", "Backgrounding">>,
     <<"Foreground", "Mounted">>, <<"Backgrounding", "Mounted">>,
     <<"Mounted", "Unmounting">>, <<"Unmounting", "Terminated">>}
    \cup {<<s, "Failed">> : s \in NonTerminal}

\* C9: the session state changes only along Initializing -> {Foreground |
\* Backgrounding} -> Mounted -> Unmounting -> Terminated, or to Failed from a
\* non-terminal state; Terminated and Failed are never left within the run.
C9_LifecycleEdges ==
    [][/\ (session' = session /\ SessionState' # SessionState) =>
             <<SessionState, SessionState'>> \in Edges
       /\ SessionState = "Foreground" => foreground
       /\ SessionState = "Backgrounding" => ~foreground]_vars

C9_Witness ==
    /\ ~foreground
    /\ SessionState = "Terminated"

\* C10: the sink is built at most once per process, before the mount call, and
\* the topology alone decides it: desktop in the background child, socket in
\* the foreground process, none in the background parent; never two sinks in
\* one session, and a sink once built never changes during the session.
C10_SinkByTopology ==
    /\ [](/\ \A p \in Proc :
                /\ Count(p, "notifier") <= 1
                /\ Precedes(p, "notifier", p, "mount_call")
                /\ notifier[p] # "none" <=> Happened(p, "notifier")
          /\ notifier["main"] \in {"none", "uds"}
          /\ notifier["child"] \in {"none", "desktop"}
          /\ foreground => notifier["child"] = "none"
          /\ ~foreground => notifier["main"] = "none"
          /\ ~(notifier["main"] # "none" /\ notifier["child"] # "none"))
    /\ [][session' = session =>
             \A p \in Proc : notifier[p] # "none" => notifier'[p] = notifier[p]]_vars

C10_Witness ==
    /\ notifier["child"] = "desktop"
    /\ mounted
    /\ poolConns["child"] # {}

ChildView == <<pc["child"], result["child"], err["child"], pool["child"],
               poolConns["child"], notifier["child"], mounted, version>>

\* C11: in a background mount the parent's exit does not tear the mount down:
\* the step in which the parent returns changes nothing of the child or of the
\* mount, the child can always go on whether or not the parent has returned,
\* and an established mount ends only by an unmount request of the kernel.
C11_ParentExitKeepsMount ==
    /\ [][(pc["main"] = "parent" /\ pc'["main"] = "done") => ChildView' = ChildView]_vars
    /\ [][(~foreground /\ mounted /\ ~mounted') =>
             events' = Append(events, <<"kernel", "unmount">>)]_vars
    /\ [](pc["child"] \in {"c_migrate", "c_notifier", "c_mount"} => ENABLED ChildStep)
    /\ []((pc["main"] = "done" /\ pc["child"] = "wait"
             /\ ~Happened("kernel", "unmount")) => SessionState = "Mounted")

C11_Witness ==
    /\ ~foreground
    /\ pc["main"] = "done"
    /\ SessionState = "Mounted"
    /\ Happened("child", "pool_conn")
    /\ \E i \in Pos("child", "mounted") : \E j \in Pos("main", "parent_report") : i < j

\* C12: the Migrator is idempotent across sessions: once an earlier mount of
\* the collection has migrated the store, the store stays at the required
\* version, a later session's Migrator call changes nothing and reports no
\* error, and that session goes on towards the mount.
C12_MigratorIdempotent ==
    /\ [](migratedBefore =>
            /\ version = TargetVersion
            /\ \A p \in Proc :
                  /\ ~Happened(p, "migrate_err")
                  /\ err[p] # "Migration"
                  /\ Happened(p, "store_open") =>
                        (Happened(p, "migrate_ok") /\ pc[p] # "failed")
                        \/ err[p] \in {"Notifier", "SignalRegister", "Mount"})
    /\ [][version = TargetVersion => version' = version]_vars

C12_Witness ==
    /\ session = 2
    /\ migratedBefore
    /\ mounted
    /\ \E p \in Proc : Happened(p, "migrate_ok") /\ Happened(p, "mounted")

\* C13: after a successful mount call the background child stays blocked on
\* the mount handle while its filesystem is mounted; it returns, with success,
\* only once the mount is gone, so it is never Terminated while still mounted.
C13_ChildWaitsForUnmount ==
    /\ [](pc["child"] = "done" =>
            /\ ~mounted
            /\ result["child"] = "Ok"
            /\ \E i \in Pos("child", "mounted") :
                  \E j \in Pos("kernel", "unmount") :
                     \E k \in Pos("child", "return_ok") : i < j /\ j < k)
    /\ []((~foreground /\ SessionState = "Terminated") => ~mounted)
    /\ []((pc["child"] = "wait" /\ mounted) => ~ENABLED ChildStep)
    /\ [][(pc["child"] = "wait" /\ pc'["child"] # "wait") =>
             (~mounted /\ pc'["child"] = "done" /\ result'["child"] = "Ok")]_vars

C13_Witness ==
    /\ pc["child"] = "done"
    /\ result["child"] = "Ok"
    /\ poolConns["child"] = Workers

\* C14: in the foreground path the SIGINT handler is registered before the
\* mount call and the flag, once set, stays set for the rest of the session,
\* so a signal delivered after the registration (before the mount completes
\* or while Mounted) is not lost: the next poll of the wait loop sees it.
C14_SignalNeverLost ==
    /\ [](/\ Precedes("main", "sig_register", "main", "mount_call")
          /\ Happened("main", "mount_call") => (foreground => registered)
          /\ Happened("env", "sigint") => sigint)
    /\ [][(session' = session /\ sigint) => sigint']_vars
    /\ [][(foreground /\ pc["main"] = "loop" /\ sigint /\ pc'["main"] # "loop") =>
             pc'["main"] = "unmount"]_vars
    /\ (Happened("env", "sigint") /\ SessionState = "Mounted") ~> pc["main"] = "unmount"

C14_Witness ==
    /\ foreground
    /\ pc["main"] = "unmount"
    /\ sleptSinceFlag = 0
    /\ \E i \in Pos("env", "sigint") : \E j \in Pos("main", "mounted") : i < j

\* C15: over all processes of one invocation the kernel mount call is issued
\* at most once: by the child only in background mode, never by the parent,
\* and by the single process in foreground mode.
C15_MountCallAtMostOnce ==
    /\ Count("main", "mount_call") + Count("child", "mount_call") <= 1
    /\ Count("main", "mounted") + Count("child", "mounted") <= 1
    /\ ~foreground => ~Happened("main", "mount_call")
    /\ foreground => (~Happened("child", "mount_call") /\ pc["child"] = "unborn")
    /\ \A p \in Proc : Happened(p, "mount_call") => pc[p] \in {"wait", "loop", "sleep",
                                                               "unmount", "done", "failed"}

C15_Witness ==
    /\ ~foreground
    /\ pc["main"] = "done"
    /\ Count("child", "mount_call") = 1
    /\ pc["child"] = "done"

\* calls of opener::open in this invocation, successful or not
OpenAttempts ==
    Count("main", "opener") + Count("main", "opener_err")
    + Count("child", "opener") + Count("child", "opener_err")

LaterEffects == {"pool_new", "fork", "fork_failed", "store_open", "migrate_ok",
                 "migrate_err", "notifier", "notifier_err", "sig_register", "mount_call"}

\* what holds of the open of the user-facing view whenever it is reached
ViewRules ==
    /\ OpenAttempts <= 1
    /\ ~Happened("child", "opener") /\ ~Happened("child", "opener_err")
    /\ openedView = (IF ~Happened("main", "opener") THEN "none"
                     ELSE IF mpExists THEN "mountpoint" ELSE "supertag_dir")
    /\ SessionState = "Initializing" => OpenAttempts = 0
    /\ \A p \in Proc : \A e \in LaterEffects : Precedes("main", "opener", p, e)
    /\ Happened("main", "opener_err") =>
          /\ result["main"] = "Err" /\ err["main"] = "Opener"
          /\ pc["child"] = "unborn"
          /\ ~mounted
          /\ \A p \in Proc : \A e \in LaterEffects : ~Happened(p, e)

\* C16 (as stated): the user-facing view is opened exactly once in every
\* invocation, during Initializing and before fork, migration and mount, on
\* the mountpoint when it exists and on the base collection directory
\* otherwise; a failed open returns an error with nothing after it.
C16_ViewOpenedInEveryInvocation ==
    /\ ViewRules
    /\ pc["main"] \notin {"start", "open"} => OpenAttempts = 1

\* C16 (amended): as above, but exactly once in every invocation that passes
\* the check of the mount target, and not at all in one that fails it.
C16_ViewOpenedOnceAfterCheck ==
    /\ ViewRules
    /\ err["main"] = "InvalidMountDir" => OpenAttempts = 0
    /\ (pc["main"] \notin {"start", "open"} /\ err["main"] # "InvalidMountDir") =>
          OpenAttempts = 1

C16_Witness ==
    /\ Happened("main", "opener_err")
    /\ pc["main"] = "failed"

\* C17: the foreground wait loop answers the flag within a bounded number of
\* polls: after the flag is set at most one more sleep of the loop completes,
\* the poll after it leaves the loop, and the sleeps completed since the flag
\* was set add up to less than the one-second bound.
C17_BoundedPolls ==
    /\ sleptSinceFlag <= 1
    /\ sleptSinceFlag * SleepMs < LatencyBoundMs
    /\ (pc["main"] = "sleep" /\ sigint) => sleptSinceFlag = 0
    /\ sleptSinceFlag = 1 => (sigint /\ pc["main"] \in {"loop", "unmount", "done"})

C17_Witness ==
    /\ sleptSinceFlag = 1
    /\ pc["main"] = "done"
    /\ result["main"] = "Ok"

====
